---- MODULE Spec2Model ----
(***************************************************************************)
(* Sidecar process supervisor of the nyx desktop client                    *)
(* (client/src-tauri/src/lib.rs): the health prober, the external-path     *)
(* launcher, the embedded-resource launcher, the readiness waiter and the  *)
(* startup task spawned by run().                                          *)
(*                                                                         *)
(* Every command runs in the frame of its caller: "orch" is the startup    *)
(* task, the members of UI are invocations coming from the user interface. *)
(* The filesystem, the OS spawn results, the HTTP responses and the exit   *)
(* of child processes are the environment.                                 *)
(***************************************************************************)
EXTENDS Integers, Sequences, FiniteSets, TLC

\* ------------------------------------------------------------------ bounds

\* Number of commands each user-interface caller may invoke.
MaxUiCalls == 1

\* ------------------------------------------------------- program constants

\* lib.rs:21-27  the ordered candidate list of start_server
server_paths ==
    << [text |-> "../server/main.py",       suffix |-> ".py"],
       [text |-> "./server/main.py",        suffix |-> ".py"],
       [text |-> "../server/dist/main.exe", suffix |-> ".exe"],
       [text |-> "./server/dist/main.exe",  suffix |-> ".exe"],
       [text |-> "server.exe",              suffix |-> ".exe"] >>

NumPaths == Len(server_paths)

\* lib.rs:121  for i in 0..30
MaxAttempts == 30

\* lib.rs:9  the timeout of one request, in seconds
ProbeTimeoutSecs == 5

\* lib.rs:129, 133  the sleep between two probes, in seconds
IntervalSecs == 1

\* lib.rs:91  the sleep between spawn and try_wait, in seconds
GraceSecs == 3

\* lib.rs:120, 138  "for up to 30 seconds", "within 30 seconds"
ReadinessSecs == 30

\* ------------------------------------------------------------- the callers

ORCH    == "orch"
UI      == {"ui1", "ui2"}
Callers == {ORCH} \cup UI

Commands == {"check_server_health", "start_server",
             "start_embedded_server", "wait_for_server_ready"}

\* ------------------------------------------------------------ environment

OsErrors     == {"EACCES"}
ExitStatuses == {"exit_0", "exit_1"}

\* What one GET /health can come back with: a response with a status code, or
\* a transport error (connection refused, the 5 second timeout).
Response(s)  == [kind |-> "response", status |-> s, error |-> "none"]
Transport(e) == [kind |-> "error", status |-> 0, error |-> e]
Responses(up) ==
    IF up THEN {Response(200), Response(204)}
          ELSE {Response(503), Transport("connect"), Transport("timeout")}

\* The whole seconds a request can take: one that times out takes the full
\* timeout, every other outcome arrives before it.
ProbeSeconds(r) ==
    IF r = Transport("timeout") THEN {ProbeTimeoutSecs}
                                ELSE 0..(ProbeTimeoutSecs - 1)

\* ------------------------------------------------------------ Rust results

Ok(v)  == [tag |-> "Ok",  val |-> v]
Err(m) == [tag |-> "Err", val |-> m]
Unit   == <<>>
NoRet  == [tag |-> "none", val |-> <<>>]
NoResp == [kind |-> "none", status |-> 0, error |-> "none"]
NoLog  == [level |-> "none", msg |-> <<>>]

\* format!("text {}", x) keeps both the fixed text and the formatted value.
Format(text, x) == <<text, x>>
Mentions(msg, x) == \E i \in DOMAIN msg : msg[i] = x

Log(level, msg) == [level |-> level, msg |-> msg]

\* The filesystem does not change while the application runs, and the program
\* learns of it only by looking: what a path holds is "unknown" until the first
\* look decides it, and every later look sees the same.
Looks(known, options) == IF known = "unknown" THEN options ELSE {known}

ResourceStates == {"unresolvable", "missing", "present"}

\* ------------------------------------------------------------------ state

VARIABLES
    exists,     \* per candidate of server_paths: is it on the filesystem
    resource,   \* the resource root and nyx-server.exe under it
    reachable,  \* GET /health currently answers with a 2xx status
    children,   \* every child process spawned so far, in spawn order
    opc,        \* position of the startup task
    otrace,     \* the positions the startup task went through, with the
                \* result that led to each
    cmd,        \* per caller: the command it runs or ran last
    pc,         \* per caller: position inside that command
    idx,        \* per caller: loop variable (path index / attempt i)
    probes,     \* per caller: health probes sent by the current command
    sleeps,     \* per caller: one-second sleeps finished by the current command
    firstUp,    \* per caller: number of the first probe sent while reachable
    resp,       \* per caller: what its last check_server_health got back
    polled,     \* per caller: the child's status when try_wait looked at it
    ret,        \* per caller: the value the command returned
    child,      \* per caller: the Child handle held by start_embedded_server
    tried,      \* per caller: spawn attempts of the current command, in order
    waited,     \* per caller: what each child.try_wait() of the current
                \* command returned, in order
    elapsed,    \* per caller: seconds the current command has spent in its
                \* sleeps and, where observed, in its requests
    log,        \* per caller: the last record it logged
    calls,      \* per caller and command: invocations so far
    spawns      \* per caller: spawn() calls so far

fsVars    == <<exists, resource>>
frameVars == <<cmd, pc, idx, probes, sleeps, firstUp, resp, polled, ret,
               child, tried, waited, elapsed>>
vars      == <<exists, resource, reachable, children, opc, otrace, cmd, pc, idx,
               probes, sleeps, firstUp, resp, polled, ret, child, tried,
               waited, elapsed, log, calls, spawns>>

Init ==
    /\ exists = [i \in 1..NumPaths |-> "unknown"]
    /\ resource = "unknown"
    /\ reachable \in BOOLEAN
    /\ children = <<>>
    /\ opc = "init"
    /\ otrace = <<>>
    /\ cmd = [c \in Callers |-> "none"]
    /\ pc = [c \in Callers |-> "idle"]
    /\ idx = [c \in Callers |-> 0]
    /\ probes = [c \in Callers |-> 0]
    /\ sleeps = [c \in Callers |-> 0]
    /\ firstUp = [c \in Callers |-> 0]
    /\ resp = [c \in Callers |-> NoResp]
    /\ polled = [c \in Callers |-> "none"]
    /\ ret = [c \in Callers |-> NoRet]
    /\ child = [c \in Callers |-> 0]
    /\ tried = [c \in Callers |-> <<>>]
    /\ waited = [c \in Callers |-> <<>>]
    /\ elapsed = [c \in Callers |-> 0]
    /\ log = [c \in Callers |-> NoLog]
    /\ calls = [c \in Callers |-> [f \in Commands |-> 0]]
    /\ spawns = [c \in Callers |-> 0]

\* ------------------------------------------------- entering a command

Entry(f) ==
    CASE f = "check_server_health"   -> "send"
      [] f = "start_server"          -> "loop"
      [] f = "start_embedded_server" -> "resolve"
      [] f = "wait_for_server_ready" -> "loop"

\* lib.rs:68 and lib.rs:118: the two commands that log on entry
EntryLog(f, old) ==
    CASE f = "start_embedded_server" -> Log("info", <<"Starting embedded server...">>)
      [] f = "wait_for_server_ready" -> Log("info", <<"Waiting for server to be ready...">>)
      [] OTHER -> old

\* The records a caller keeps of a command (its probes and sleeps, the child it
\* held and polled) start afresh when that command is invoked again.
Probing == {"check_server_health", "wait_for_server_ready"}

Invoke(c, f) ==
    /\ cmd' = [cmd EXCEPT ![c] = f]
    /\ pc' = [pc EXCEPT ![c] = Entry(f)]
    /\ idx' = [idx EXCEPT ![c] = IF f = "start_server" THEN 1 ELSE 0]
    /\ resp' = [resp EXCEPT ![c] = NoResp]
    /\ ret' = [ret EXCEPT ![c] = NoRet]
    /\ IF f \in Probing
       THEN /\ probes' = [probes EXCEPT ![c] = 0]
            /\ sleeps' = [sleeps EXCEPT ![c] = 0]
            /\ firstUp' = [firstUp EXCEPT ![c] = 0]
       ELSE UNCHANGED <<probes, sleeps, firstUp>>
    /\ IF f = "start_embedded_server"
       THEN /\ polled' = [polled EXCEPT ![c] = "none"]
            /\ child' = [child EXCEPT ![c] = 0]
            /\ waited' = [waited EXCEPT ![c] = <<>>]
       ELSE UNCHANGED <<polled, child, waited>>
    /\ elapsed' = [elapsed EXCEPT ![c] = 0]
    /\ tried' = [tried EXCEPT ![c] = <<>>]
    /\ log' = [log EXCEPT ![c] = EntryLog(f, @)]
    /\ calls' = [calls EXCEPT ![c][f] = @ + 1]

Running(c, f, at) == cmd[c] = f /\ pc[c] = at

Return(c, r) ==
    /\ ret' = [ret EXCEPT ![c] = r]
    /\ pc' = [pc EXCEPT ![c] = "returned"]

\* -------------------------------------------------- check_server_health

\* reqwest's StatusCode::is_success: 200 <= status <= 299
is_success(status) == status >= 200 /\ status <= 299

\* A variant that hands a transport error on to the caller.
check_server_health_PropagatesError(r) ==
    IF r.kind = "response" THEN Ok(is_success(r.status)) ELSE Err(<<r.error>>)

\* lib.rs:6-16  the match on the outcome of send().await
check_server_health(r) ==
    IF r.kind = "response" THEN Ok(is_success(r.status)) ELSE Ok(FALSE)

\* The request is answered (or fails, or times out) and the command returns.
CheckRespond(c) ==
    /\ Running(c, "check_server_health", "send")
    /\ \E r \in Responses(reachable) :
          /\ resp' = [resp EXCEPT ![c] = r]
          /\ Return(c, check_server_health(r))
    /\ probes' = [probes EXCEPT ![c] = @ + 1]
    /\ firstUp' = [firstUp EXCEPT ![c] = IF reachable THEN 1 ELSE 0]
    /\ UNCHANGED <<fsVars, reachable, children, opc, otrace, cmd, idx, sleeps,
                   polled, child, tried, waited, elapsed, log, calls, spawns>>

\* ----------------------------------------------------------- start_server

\* lib.rs:32  path.ends_with(".py")
ends_with_py(p) == p.suffix = ".py"

\* lib.rs:32-46  the command line built for a candidate
SpawnCommand(p) ==
    IF ends_with_py(p)
    THEN [program |-> "python", arg |-> p.text, cwd |-> "../server"]
    ELSE [program |-> p.text,   arg |-> "",     cwd |-> "."]

\* Caller c is inside start_server at this moment.
InStartServer(c) == cmd[c] = "start_server" /\ pc[c] = "loop"

\* A child process; "during" records which other callers were inside
\* start_server when it was spawned.
NewChild(c, kind, cand, command) ==
    [by |-> c, kind |-> kind, cand |-> cand, command |-> command,
     status |-> "running",
     during |-> {d \in Callers \ {c} : InStartServer(d)}]

\* A variant that does not see a candidate while a child spawned from it runs.
path_exists_UnlessRunning(i, v) ==
    /\ v \in Looks(exists[i], {"yes", "no"})
    /\ v = "yes" => \A k \in DOMAIN children :
                       children[k].cand # i \/ children[k].status # "running"

\* lib.rs:31  if path_buf.exists()
path_exists(i, v) == v \in Looks(exists[i], {"yes", "no"})

\* A variant whose loop stops one candidate short.
HasNextPath_SkipsLast(i) == i < NumPaths

\* lib.rs:29  for path in server_paths
HasNextPath(i) == i <= NumPaths

\* A variant that goes on to the next candidate after a successful spawn too.
SpawnArm_NeverReturns(out) == "continue"

\* A variant that returns after its first attempt, whatever the OS answered.
SpawnArm_ReturnsOnFailure(out) == "return"

\* lib.rs:48-51  match result: Ok returns, Err logs a warning and goes on
SpawnArm(out) == IF out = "ok" THEN "return" ELSE "continue"

\* lib.rs:55  the error once the loop is over
NotStarted == Err(<<"Could not find or start server executable">>)

\* lib.rs:31  a candidate that does not exist is passed over
StartServerSkip(c) ==
    /\ Running(c, "start_server", "loop")
    /\ HasNextPath(idx[c])
    /\ path_exists(idx[c], "no")
    /\ exists' = [exists EXCEPT ![idx[c]] = "no"]
    /\ idx' = [idx EXCEPT ![c] = @ + 1]
    /\ UNCHANGED <<resource, reachable, children, opc, otrace, cmd, pc,
                   probes, sleeps, firstUp, resp, polled, ret, child, tried,
                   waited, elapsed, log, calls, spawns>>

\* lib.rs:31-51  an existing candidate is spawned; the OS accepts or refuses
StartServerSpawn(c) ==
    /\ Running(c, "start_server", "loop")
    /\ HasNextPath(idx[c])
    /\ path_exists(idx[c], "yes")
    /\ exists' = [exists EXCEPT ![idx[c]] = "yes"]
    /\ \E out \in {"ok"} \cup OsErrors :
         LET p == server_paths[idx[c]] IN
         /\ spawns' = [spawns EXCEPT ![c] = @ + 1]
         /\ tried' = [tried EXCEPT ![c] =
                         Append(@, [cand |-> idx[c], ok |-> out = "ok"])]
         /\ children' = IF out = "ok"
                        THEN Append(children,
                                    NewChild(c, "external", idx[c], SpawnCommand(p)))
                        ELSE children
         /\ IF SpawnArm(out) = "return"
            THEN /\ Return(c, Ok(Format("Server started from ", p.text)))
                 /\ UNCHANGED <<idx, log>>
            ELSE /\ log' = [log EXCEPT ![c] =
                               Log("warn", <<"Failed to start server from ",
                                             p.text, out>>)]
                 /\ idx' = [idx EXCEPT ![c] = @ + 1]
                 /\ UNCHANGED <<ret, pc>>
    /\ UNCHANGED <<resource, reachable, opc, otrace, cmd, probes, sleeps,
                   firstUp, resp, polled, child, waited, elapsed, calls>>

\* lib.rs:55  the loop is over and nothing was started
StartServerExhausted(c) ==
    /\ Running(c, "start_server", "loop")
    /\ ~HasNextPath(idx[c])
    /\ Return(c, NotStarted)
    /\ UNCHANGED <<fsVars, reachable, children, opc, otrace, cmd, idx, probes,
                   sleeps, firstUp, resp, polled, child, tried, waited,
                   elapsed, log, calls, spawns>>

\* -------------------------------------------------- start_embedded_server

WaitErrors == {"ECHILD"}

\* What child.try_wait() can return for a child in status st.
TryWaitResults(st) ==
    (IF st = "running" THEN {Ok("None")} ELSE {Ok(st)})
        \cup {Err(e) : e \in WaitErrors}

\* A variant that takes a child that exited with status 0 for a started server.
AfterTryWait_ExitZeroIsSuccess(tw) ==
    IF tw.tag = "Ok"
    THEN IF tw.val \in {"None", "exit_0"}
         THEN Ok(Unit)
         ELSE Err(Format("Server process exited early with status: ", tw.val))
    ELSE Err(Format("Error checking server process: ", tw.val))

\* A variant that matches Ok(status) for Ok(Some(status)): a child still
\* running counts as exited.
AfterTryWait_NoneIsEarlyExit(tw) ==
    IF tw.tag = "Ok"
    THEN Err(Format("Server process exited early with status: ", tw.val))
    ELSE Err(Format("Error checking server process: ", tw.val))

\* A variant that takes a failed status check for a child still running.
AfterTryWait_ErrIsRunning(tw) ==
    IF tw.tag = "Ok" /\ tw.val # "None"
    THEN Err(Format("Server process exited early with status: ", tw.val))
    ELSE Ok(Unit)

\* lib.rs:94-107  the match on child.try_wait()
AfterTryWait(tw) ==
    IF tw.tag = "Ok"
    THEN IF tw.val = "None"
         THEN Ok(Unit)
         ELSE Err(Format("Server process exited early with status: ", tw.val))
    ELSE Err(Format("Error checking server process: ", tw.val))

\* A variant without the exists() test: it spawns whatever it resolved.
AfterResolve_SpawnsUnseen(found) ==
    IF found = "unresolvable"
    THEN Err(Format("Failed to get resource directory: ", "unknown path"))
    ELSE Ok(Unit)

\* lib.rs:71-79  the ? on resource_dir() and the test of exists()
AfterResolve(found) ==
    CASE found = "unresolvable" ->
            Err(Format("Failed to get resource directory: ", "unknown path"))
      [] found = "missing" ->
            Err(<<"Server executable not found in resources">>)
      [] OTHER -> Ok(Unit)

\* lib.rs:71-79  resolve the resource directory, look for nyx-server.exe
EmbeddedResolve(c) ==
    /\ Running(c, "start_embedded_server", "resolve")
    /\ \E found \in Looks(resource, ResourceStates) :
         /\ resource' = found
         /\ IF AfterResolve(found).tag = "Err"
            THEN Return(c, AfterResolve(found))
            ELSE /\ pc' = [pc EXCEPT ![c] = "spawn"]
                 /\ UNCHANGED ret
    /\ UNCHANGED <<exists, reachable, children, opc, otrace, cmd, idx, probes,
                   sleeps, firstUp, resp, polled, child, tried, waited,
                   elapsed, log, calls, spawns>>

\* lib.rs:82-88 and 109-112  spawn nyx-server.exe
EmbeddedSpawn(c) ==
    /\ Running(c, "start_embedded_server", "spawn")
    /\ \E out \in {"ok"} \cup OsErrors :
         /\ spawns' = [spawns EXCEPT ![c] = @ + 1]
         /\ tried' = [tried EXCEPT ![c] = Append(@, [cand |-> 0, ok |-> out = "ok"])]
         /\ IF out = "ok"
            THEN /\ children' = Append(children,
                        NewChild(c, "embedded", 0,
                                 [program |-> "nyx-server.exe", arg |-> "",
                                  cwd |-> "."]))
                 /\ child' = [child EXCEPT ![c] = Len(children) + 1]
                 /\ log' = [log EXCEPT ![c] =
                      Log("info", <<"Server process started, waiting for startup...">>)]
                 /\ pc' = [pc EXCEPT ![c] = "grace"]
                 /\ UNCHANGED ret
            ELSE /\ log' = [log EXCEPT ![c] =
                      Log("error", Format("Failed to start server: ", out))]
                 /\ Return(c, Err(Format("Failed to start server: ", out)))
                 /\ UNCHANGED <<children, child>>
    /\ UNCHANGED <<fsVars, reachable, opc, otrace, cmd, idx, probes, sleeps,
                   firstUp, resp, polled, waited, elapsed, calls>>

\* lib.rs:91  the 3 second sleep is over
EmbeddedGrace(c) ==
    /\ Running(c, "start_embedded_server", "grace")
    /\ pc' = [pc EXCEPT ![c] = "try_wait"]
    /\ elapsed' = [elapsed EXCEPT ![c] = @ + GraceSecs]
    /\ UNCHANGED <<fsVars, reachable, children, opc, otrace, cmd, idx, probes,
                   sleeps, firstUp, resp, polled, ret, child, tried, waited,
                   log, calls, spawns>>

\* lib.rs:94-107  poll the child once and return
EmbeddedTryWait(c) ==
    /\ Running(c, "start_embedded_server", "try_wait")
    /\ \E tw \in TryWaitResults(children[child[c]].status) :
         LET r == AfterTryWait(tw) IN
         /\ waited' = [waited EXCEPT ![c] = Append(@, tw)]
         /\ Return(c, r)
         /\ log' = [log EXCEPT ![c] =
                IF r.tag = "Ok"
                THEN Log("info",
                         <<"Server started successfully and is running">>)
                ELSE Log("error", r.val)]
    /\ polled' = [polled EXCEPT ![c] = children[child[c]].status]
    /\ UNCHANGED <<fsVars, reachable, children, opc, otrace, cmd, idx, probes,
                   sleeps, firstUp, resp, child, tried, elapsed, calls,
                   spawns>>

\* -------------------------------------------------- wait_for_server_ready

\* A variant with an inclusive range, 0..=30.
InRange_Inclusive(i) == i <= MaxAttempts

\* lib.rs:121  for i in 0..30
InRange(i) == i < MaxAttempts

\* A variant that matches Ok(_): any answer of the probe counts as ready.
WaitArm_AnyOkIsReady(h) == IF h.tag = "Ok" THEN "ready" ELSE "sleep_err"

\* lib.rs:122-135  the match on check_server_health().await
WaitArm(h) ==
    IF h.tag = "Ok" THEN (IF h.val THEN "ready" ELSE "sleep") ELSE "sleep_err"

\* lib.rs:138  the error once the loop is over
TimedOut == Err(<<"Server failed to start within 30 seconds">>)

\* lib.rs:122-128  probe number i+1. The time the request takes is added to
\* elapsed where the specification observes it (timed).
WaitProbeAt(c, timed) ==
    /\ Running(c, "wait_for_server_ready", "loop")
    /\ InRange(idx[c])
    /\ probes' = [probes EXCEPT ![c] = @ + 1]
    /\ firstUp' = [firstUp EXCEPT ![c] =
                      IF @ = 0 /\ reachable THEN probes[c] + 1 ELSE @]
    /\ \E r \in Responses(reachable) :
         LET arm == WaitArm(check_server_health(r)) IN
         /\ \E d \in (IF timed THEN ProbeSeconds(r) ELSE {0}) :
               elapsed' = [elapsed EXCEPT ![c] = @ + d]
         /\ IF arm = "ready"
            THEN /\ Return(c, Ok(TRUE))
                 /\ log' = [log EXCEPT ![c] =
                               Log("info", <<"Server is ready!">>)]
            ELSE /\ pc' = [pc EXCEPT ![c] = arm]
                 /\ log' = [log EXCEPT ![c] =
                       IF arm = "sleep"
                       THEN Log("debug", <<"Server not ready yet, attempt ",
                                           ToString(idx[c] + 1), "/30">>)
                       ELSE Log("debug", <<"Server health check error: ">>)]
                 /\ UNCHANGED ret
    /\ UNCHANGED <<fsVars, reachable, children, opc, otrace, cmd, idx, sleeps,
                   resp, polled, child, tried, waited, calls, spawns>>

WaitProbe(c) == WaitProbeAt(c, FALSE)

WaitProbeTimed(c) == WaitProbeAt(c, TRUE)

\* A variant that launches the first candidate itself while the backend is
\* not ready.
WaitSleep_StartsServer(c) ==
    /\ cmd[c] = "wait_for_server_ready"
    /\ pc[c] \in {"sleep", "sleep_err"}
    /\ sleeps' = [sleeps EXCEPT ![c] = @ + 1]
    /\ elapsed' = [elapsed EXCEPT ![c] = @ + IntervalSecs]
    /\ idx' = [idx EXCEPT ![c] = @ + 1]
    /\ pc' = [pc EXCEPT ![c] = "loop"]
    /\ children' = Append(children,
                          NewChild(c, "external", 1,
                                   SpawnCommand(server_paths[1])))
    /\ spawns' = [spawns EXCEPT ![c] = @ + 1]
    /\ UNCHANGED <<fsVars, reachable, opc, otrace, cmd, probes, firstUp, resp,
                   polled, ret, child, tried, waited, log, calls>>

\* lib.rs:129 / 133  the one second sleep is over; the loop goes on
WaitSleep(c) ==
    /\ cmd[c] = "wait_for_server_ready"
    /\ pc[c] \in {"sleep", "sleep_err"}
    /\ sleeps' = [sleeps EXCEPT ![c] = @ + 1]
    /\ elapsed' = [elapsed EXCEPT ![c] = @ + IntervalSecs]
    /\ idx' = [idx EXCEPT ![c] = @ + 1]
    /\ pc' = [pc EXCEPT ![c] = "loop"]
    /\ UNCHANGED <<fsVars, reachable, children, opc, otrace, cmd, probes,
                   firstUp, resp, polled, ret, child, tried, waited, log,
                   calls, spawns>>

\* lib.rs:138  the range is exhausted
WaitTimeout(c) ==
    /\ Running(c, "wait_for_server_ready", "loop")
    /\ ~InRange(idx[c])
    /\ Return(c, TimedOut)
    /\ UNCHANGED <<fsVars, reachable, children, opc, otrace, cmd, idx, probes,
                   sleeps, firstUp, resp, polled, child, tried, waited,
                   elapsed, log, calls, spawns>>

\* ------------------------------------------------- the startup task of run

OrchTerminal == {"already_running", "embedded_ok", "fallback_ok",
                 "all_failed", "health_err"}

\* A variant that launches whatever the probe said.
AfterProbe_IgnoresResult(r) ==
    IF r.tag = "Ok" THEN "embedded" ELSE "health_err"

\* A variant that goes on to the external launch whatever the embedded one said.
AfterEmbedded_AlwaysFallsBack(r) == "fallback"

\* A variant that unwraps the result of the external launch.
AfterFallback_Unwraps(r) == IF r.tag = "Ok" THEN "fallback_ok" ELSE "panicked"

\* A variant that does not look at the result of the external launch.
AfterFallback_ReportsStarted(r) == "fallback_ok"

\* A variant with the arms of the probe's match exchanged.
AfterProbe_LaunchesWhenUp(r) ==
    IF r.tag = "Ok" THEN (IF r.val THEN "embedded" ELSE "already_running")
                    ELSE "health_err"

\* lib.rs:167-184  the arms of the three nested matches
AfterProbe(r) ==
    IF r.tag = "Ok" THEN (IF r.val THEN "already_running" ELSE "embedded")
                    ELSE "health_err"

AfterEmbedded(r) == IF r.tag = "Ok" THEN "embedded_ok" ELSE "fallback"

AfterFallback(r) == IF r.tag = "Ok" THEN "fallback_ok" ELSE "all_failed"

\* What the task logs on reaching position p with result r.
OrchLog(p, r) ==
    CASE p = "already_running" -> Log("info", <<"Server is already running">>)
      [] p = "embedded" ->
            Log("info", <<"Server not running, starting embedded server...">>)
      [] p = "health_err" -> Log("error", <<"Error checking server health: ">>)
      [] p = "embedded_ok" ->
            Log("info", <<"Embedded server started successfully">>)
      [] p = "fallback" ->
            Log("warn", <<"Failed to start embedded server: ">> \o r.val)
      [] p = "fallback_ok" ->
            Log("info", <<"Fallback server start: ">> \o r.val)
      [] p = "all_failed" ->
            Log("error", <<"All server start methods failed: ">> \o r.val)
      [] OTHER -> Log("none", <<>>)

\* lib.rs:162  setup spawns the task, which starts its 2 second sleep
OrchSpawn ==
    /\ opc = "init"
    /\ opc' = "delay"
    /\ otrace' = <<[at |-> "delay", on |-> NoRet]>>
    /\ UNCHANGED <<fsVars, reachable, children, frameVars, log, calls,
                   spawns>>

\* lib.rs:164-167  the sleep is over; the task calls check_server_health
OrchProbe ==
    /\ opc = "delay"
    /\ opc' = "probing"
    /\ otrace' = Append(otrace, [at |-> "probing", on |-> NoRet])
    /\ Invoke(ORCH, "check_server_health")
    /\ UNCHANGED <<fsVars, reachable, children, spawns>>

\* lib.rs:167-171, 183  the match on the probe's result
OrchAfterProbe ==
    /\ opc = "probing"
    /\ pc[ORCH] = "returned"
    /\ LET p == AfterProbe(ret[ORCH]) IN
       /\ opc' = p
       /\ otrace' = Append(otrace, [at |-> p, on |-> ret[ORCH]])
       /\ IF p = "embedded"
          THEN /\ Invoke(ORCH, "start_embedded_server")
          ELSE /\ log' = [log EXCEPT ![ORCH] = OrchLog(p, ret[ORCH])]
               /\ UNCHANGED <<frameVars, calls>>
    /\ UNCHANGED <<fsVars, reachable, children, spawns>>

\* lib.rs:171-176  the match on start_embedded_server's result
OrchAfterEmbedded ==
    /\ opc = "embedded"
    /\ pc[ORCH] = "returned"
    /\ LET p == AfterEmbedded(ret[ORCH]) IN
       /\ opc' = p
       /\ otrace' = Append(otrace, [at |-> p, on |-> ret[ORCH]])
       /\ IF p = "fallback"
          THEN /\ Invoke(ORCH, "start_server")
          ELSE /\ log' = [log EXCEPT ![ORCH] = OrchLog(p, ret[ORCH])]
               /\ UNCHANGED <<frameVars, calls>>
    /\ UNCHANGED <<fsVars, reachable, children, spawns>>

\* lib.rs:176-179  the match on start_server's result
OrchAfterFallback ==
    /\ opc = "fallback"
    /\ pc[ORCH] = "returned"
    /\ opc' = AfterFallback(ret[ORCH])
    /\ otrace' = Append(otrace, [at |-> opc', on |-> ret[ORCH]])
    /\ log' = [log EXCEPT ![ORCH] = OrchLog(opc', ret[ORCH])]
    /\ UNCHANGED <<fsVars, reachable, children, frameVars, calls, spawns>>

\* --------------------------------------- commands invoked from the UI

TotalCalls(c) ==
    calls[c]["check_server_health"] + calls[c]["start_server"]
        + calls[c]["start_embedded_server"] + calls[c]["wait_for_server_ready"]

\* lib.rs:144-150  the invoke handler: any registered command, at any time
UiInvoke(c, f) ==
    /\ pc[c] \in {"idle", "returned"}
    /\ TotalCalls(c) < MaxUiCalls
    /\ Invoke(c, f)
    /\ UNCHANGED <<fsVars, reachable, children, opc, otrace, spawns>>

\* ------------------------------------------------------------ environment

\* The backend starts or stops answering /health with a 2xx status.
BackendChange ==
    /\ reachable' = ~reachable
    /\ UNCHANGED <<fsVars, children, opc, otrace, frameVars, log, calls,
                   spawns>>

\* A spawned child terminates. Only start_embedded_server keeps the handle
\* of its child and reads the exit status; an external child's is never read.
ExitsOf(kind) == IF kind = "embedded" THEN ExitStatuses ELSE {"exited"}

ChildExit(i) ==
    /\ children[i].status = "running"
    /\ \E st \in ExitsOf(children[i].kind) :
         children' = [children EXCEPT ![i].status = st]
    /\ UNCHANGED <<fsVars, reachable, opc, otrace, frameVars, log, calls,
                   spawns>>

\* ---------------------------------------------------------- specification

CheckStep(c) == CheckRespond(c)

LaunchStep(c) ==
    \/ StartServerSkip(c)
    \/ StartServerSpawn(c)
    \/ StartServerExhausted(c)

EmbeddedStep(c) ==
    \/ EmbeddedResolve(c)
    \/ EmbeddedSpawn(c)
    \/ EmbeddedGrace(c)
    \/ EmbeddedTryWait(c)

WaitStep(c) ==
    \/ WaitProbe(c)
    \/ WaitSleep(c)
    \/ WaitTimeout(c)

\* wait_for_server_ready with the time of its requests observed.
WaitStepTimed(c) ==
    \/ WaitProbeTimed(c)
    \/ WaitSleep(c)
    \/ WaitTimeout(c)

CommandStep(c) ==
    \/ CheckStep(c)
    \/ LaunchStep(c)
    \/ EmbeddedStep(c)
    \/ WaitStep(c)

OrchStep ==
    \/ OrchSpawn
    \/ OrchProbe
    \/ OrchAfterProbe
    \/ OrchAfterEmbedded
    \/ OrchAfterFallback

\* The startup task together with the commands it calls.
StartupStep ==
    \/ OrchStep
    \/ CheckStep(ORCH)
    \/ EmbeddedStep(ORCH)
    \/ LaunchStep(ORCH)

EnvStep ==
    \/ BackendChange
    \/ \E i \in DOMAIN children : ChildExit(i)

\* The application: the startup task, one user-interface caller free to invoke
\* every command, and the environment.
Next ==
    \/ StartupStep
    \/ \E f \in Commands : UiInvoke("ui1", f)
    \/ CommandStep("ui1")
    \/ EnvStep

Spec == Init /\ [][Next]_vars

\* The startup task on its own.
NextStartup == StartupStep \/ EnvStep

SpecStartup == Init /\ [][NextStartup]_vars

\* tokio runs a spawned task to completion: every sleep ends, the probe is
\* bounded by its timeout, spawn and try_wait return.
FairSpec == Spec /\ WF_vars(StartupStep)

FairSpecStartup == SpecStartup /\ WF_vars(StartupStep)

\* The startup task while the user starts the server by hand.
NextManual ==
    \/ StartupStep
    \/ UiInvoke("ui1", "start_server")
    \/ LaunchStep("ui1")
    \/ EnvStep

SpecManual == Init /\ [][NextManual]_vars

\* start_server invoked concurrently by the user-interface callers. The
\* command reads neither the backend's health nor the state of a child, so
\* the environment here is the filesystem and the OS answering spawn.
NextLaunch ==
    \/ \E c \in UI : UiInvoke(c, "start_server")
    \/ \E c \in UI : LaunchStep(c)

SpecLaunch == Init /\ [][NextLaunch]_vars

\* wait_for_server_ready invoked by a user-interface caller.
NextWait ==
    \/ UiInvoke("ui1", "wait_for_server_ready")
    \/ WaitStep("ui1")
    \/ BackendChange

SpecWait == Init /\ [][NextWait]_vars

FairSpecWait == SpecWait /\ WF_vars(WaitStep("ui1"))

\* The same call on the clock: every request takes its time.
NextWaitTimed ==
    \/ UiInvoke("ui1", "wait_for_server_ready")
    \/ WaitStepTimed("ui1")
    \/ BackendChange

SpecWaitTimed == Init /\ [][NextWaitTimed]_vars

\* ------------------------------------------------------------ properties

IsPrefix(s, t) == Len(s) <= Len(t) /\ \A i \in DOMAIN s : s[i] = t[i]

Positions(tr) == [i \in DOMAIN tr |-> tr[i].at]

\* C1: if the backend is reachable when the startup task probes it, the task
\* launches nothing: it invokes neither start_embedded_server nor start_server,
\* it calls spawn zero times, and it ends in "already_running".
C1_NoLaunchWhenReachable ==
    firstUp[ORCH] = 1 =>
        /\ calls[ORCH]["start_embedded_server"] = 0
        /\ calls[ORCH]["start_server"] = 0
        /\ spawns[ORCH] = 0
        /\ opc \in {"probing", "already_running"}

C1_Witness ==
    /\ opc = "already_running"
    /\ firstUp[ORCH] = 1
    /\ spawns[ORCH] = 0

\* C2: when the embedded child has exited by the time try_wait polls it,
\* start_embedded_server returns an error and the startup task then invokes
\* start_server: eventually once, and never more than once.
EmbeddedExitedAtPoll == polled[ORCH] \in ExitStatuses

C2_EarlyExitFallsBackOnce ==
    /\ [](EmbeddedExitedAtPoll /\ cmd[ORCH] = "start_embedded_server"
             => ret[ORCH].tag = "Err")
    /\ [](calls[ORCH]["start_server"] <= 1)
    /\ (EmbeddedExitedAtPoll ~> calls[ORCH]["start_server"] = 1)
    /\ [](EmbeddedExitedAtPoll /\ opc \in OrchTerminal
             => calls[ORCH]["start_server"] = 1)

C2_Witness ==
    /\ polled[ORCH] = "exit_1"
    /\ opc \in {"fallback_ok", "all_failed"}
    /\ calls[ORCH]["start_server"] = 1

\* C10: the startup task goes through its positions in the stated order: the
\* delay, then the one probe, then (only on a false probe) the embedded launch,
\* then the external launch if and only if the embedded launch returned an
\* error; an embedded success ends the run with no external launch.
OrchPaths ==
    { <<"delay", "probing", "already_running">>,
      <<"delay", "probing", "embedded", "embedded_ok">>,
      <<"delay", "probing", "embedded", "fallback", "fallback_ok">>,
      <<"delay", "probing", "embedded", "fallback", "all_failed">> }

C10_StateSequence ==
    /\ \E t \in OrchPaths : IsPrefix(Positions(otrace), t)
    /\ \A i \in DOMAIN otrace :
         LET e == otrace[i] IN
         /\ e.at = "already_running" => e.on.tag = "Ok" /\ e.on.val = TRUE
         /\ e.at = "embedded"        => e.on.tag = "Ok" /\ e.on.val = FALSE
         /\ e.at = "embedded_ok"     => e.on.tag = "Ok"
         /\ e.at = "fallback"        => e.on.tag = "Err"
    /\ \A f \in Commands : calls[ORCH][f] <= 1
    /\ calls[ORCH]["wait_for_server_ready"] = 0
    /\ calls[ORCH]["check_server_health"] = 1 <=> Len(otrace) >= 2
    /\ calls[ORCH]["start_embedded_server"] = 1
          <=> Len(otrace) >= 3 /\ otrace[3].at = "embedded"
    /\ calls[ORCH]["start_server"] = 1
          <=> Len(otrace) >= 4 /\ otrace[4].at = "fallback"
    /\ spawns[ORCH] > 0 => calls[ORCH]["start_embedded_server"] = 1

C10_Witness ==
    /\ opc = "fallback_ok"
    /\ otrace[4].on.val[1] = "Error checking server process: "

\* ---- start_server

Returned(c, f) == cmd[c] = f /\ pc[c] = "returned"

FirstExisting(i) == exists[i] = "yes" /\ \A j \in 1..(i - 1) : exists[j] = "no"

ChildrenOf(c) == {i \in DOMAIN children : children[i].by = c}

C8_NoDeduplication ==
    \A c \in UI :
        /\ (InStartServer(c) /\ HasNextPath(idx[c]) /\ exists[idx[c]] # "no")
              => ENABLED StartServerSpawn(c)
        /\ (Returned(c, "start_server") /\ ret[c].tag = "Ok") =>
              \E i \in ChildrenOf(c) :
                  /\ children[i].kind = "external"
                  /\ children[i].cand = tried[c][Len(tried[c])].cand
                  /\ ret[c].val = <<"Server started from ",
                                    server_paths[children[i].cand].text>>
        /\ Cardinality({i \in ChildrenOf(c) : children[i].kind = "external"})
              <= calls[c]["start_server"]

\* Two children of the same candidate, spawned by two calls that were in
\* progress at the same time; both calls returned their success message.
C8_Witness ==
    /\ Len(children) = 2
    /\ children[1].by = "ui1" /\ children[2].by = "ui2"
    /\ "ui2" \in children[1].during
    /\ children[1].cand = children[2].cand
    /\ children[1].status = "running" /\ children[2].status = "running"
    /\ calls["ui1"]["start_server"] = 1 /\ calls["ui2"]["start_server"] = 1
    /\ ret["ui1"].tag = "Ok" /\ ret["ui2"].tag = "Ok"
    /\ ret["ui1"] = ret["ui2"]

\* ---- the startup task never fails the application

UiIdle(c) == pc[c] \in {"idle", "returned"} /\ TotalCalls(c) < MaxUiCalls

\* C9: the startup task always terminates, in one of its logging-only final
\* positions (already running, launched, all methods failed), and it never
\* stands in the way of the commands: whenever the user interface is free to
\* call, each of the four commands can be invoked, also after the task ended.
C9_TerminatesWithoutFailing ==
    /\ [](opc \in {"init", "delay", "probing", "embedded", "fallback"}
                  \cup OrchTerminal)
    /\ [](opc \in OrchTerminal => log[ORCH].level \in {"info", "error"})
    /\ <>(opc \in {"already_running", "embedded_ok", "fallback_ok",
                   "all_failed"})
    /\ [](UiIdle("ui1") => \A f \in Commands : ENABLED UiInvoke("ui1", f))

\* Every launch method failed, the task ended by logging the error, and the
\* user interface goes on to start the server by hand.
C9_Witness ==
    /\ opc = "all_failed"
    /\ log[ORCH].level = "error"
    /\ log[ORCH].msg[1] = "All server start methods failed: "
    /\ Returned("ui1", "start_server")
    /\ ret["ui1"].tag = "Ok"

\* ---- wait_for_server_ready

\* C5: if the backend first answers reachable on the k-th probe of a
\* wait_for_server_ready call (k in 1..30), the call returns Ok(true) on that
\* probe: after exactly k probes and k-1 one-second sleeps, none of them after
\* the successful probe; and it never returns success without such a probe.
C5_ReturnsOnFirstReachableProbe ==
    \A c \in UI : cmd[c] = "wait_for_server_ready" =>
        /\ firstUp[c] > 0 =>
              /\ firstUp[c] \in 1..MaxAttempts
              /\ pc[c] = "returned"
              /\ ret[c].tag = "Ok" /\ ret[c].val = TRUE
              /\ probes[c] = firstUp[c]
              /\ sleeps[c] = firstUp[c] - 1
        /\ (pc[c] = "returned" /\ ret[c].tag = "Ok") => firstUp[c] = probes[c]
        /\ firstUp[c] = 0 =>
              sleeps[c] = (IF pc[c] \in {"sleep", "sleep_err"}
                           THEN probes[c] - 1 ELSE probes[c])

\* The backend answered on the 30th, the last, probe.
C5_Witness ==
    /\ Returned("ui1", "wait_for_server_ready")
    /\ ret["ui1"].tag = "Ok"
    /\ firstUp["ui1"] = 30
    /\ probes["ui1"] = 30
    /\ sleeps["ui1"] = 29

\* C6: wait_for_server_ready always terminates; if no probe found the backend
\* reachable it returns the timeout error, after exactly 30 probes; it never
\* sends a 31st.
C6_TimesOutAfterThirtyProbes ==
    /\ [](\A c \in UI : probes[c] <= 30)
    /\ [](\A c \in UI : Returned(c, "wait_for_server_ready") =>
             IF firstUp[c] = 0
             THEN /\ ret[c].tag = "Err"
                  /\ ret[c].val = <<"Server failed to start within 30 seconds">>
                  /\ probes[c] = 30
             ELSE ret[c].tag = "Ok")
    /\ \A c \in {"ui1"} :
          (cmd[c] = "wait_for_server_ready") ~> (pc[c] = "returned")

C6_Witness ==
    /\ Returned("ui1", "wait_for_server_ready")
    /\ ret["ui1"].tag = "Err"
    /\ probes["ui1"] = 30
    /\ firstUp["ui1"] = 0

\* ---- check_server_health

Is2xx(r) == r.kind = "response" /\ r.status \in 200..299

\* C7: check_server_health returns Ok(b) for every outcome of the request, b
\* being true exactly when a response with a 2xx status came back; the Err
\* arms of its callers, in wait_for_server_ready and in the startup task, are
\* never taken.
C7_HealthIsBoolean ==
    /\ \A c \in Callers : Returned(c, "check_server_health") =>
          /\ ret[c].tag = "Ok"
          /\ ret[c].val \in BOOLEAN
          /\ ret[c].val <=> Is2xx(resp[c])
    /\ \A c \in Callers : pc[c] # "sleep_err"
    /\ opc # "health_err"
    /\ \A i \in DOMAIN otrace : otrace[i].at # "health_err"

\* A request that timed out: the command returned Ok(false), and the startup
\* task went on to launch the server.
C7_Witness ==
    /\ Returned("ui1", "check_server_health")
    /\ resp["ui1"] = Transport("timeout")
    /\ ret["ui1"] = Ok(FALSE)
    /\ opc = "embedded"

\* ---- start_embedded_server

\* C11: once start_embedded_server has spawned its child, what it returns is
\* decided by the one try_wait it makes and by nothing else: a child that has
\* exited gives an error carrying the exit status, a child still running gives
\* Ok, a failed status check gives an error carrying the check's error. The
\* child is polled exactly once, after the 3 second sleep and never before.
C11_ResultFollowsPolledStatus ==
    \A c \in Callers : cmd[c] = "start_embedded_server" =>
        /\ Len(waited[c]) <= 1
        /\ pc[c] \in {"resolve", "spawn", "grace"} =>
              waited[c] = <<>> /\ elapsed[c] = 0
        /\ pc[c] = "try_wait" => waited[c] = <<>> /\ elapsed[c] = GraceSecs
        /\ (pc[c] = "returned" /\ child[c] # 0) => Len(waited[c]) = 1
        /\ Len(waited[c]) = 1 =>
              LET tw == waited[c][1] IN
              /\ pc[c] = "returned"
              /\ child[c] # 0
              /\ elapsed[c] = GraceSecs
              /\ tw.tag = "Ok" => tw.val = (IF polled[c] = "running"
                                           THEN "None" ELSE polled[c])
              /\ (tw.tag = "Ok" /\ tw.val = "None") => ret[c] = Ok(Unit)
              /\ (tw.tag = "Ok" /\ tw.val # "None") =>
                    /\ tw.val \in ExitStatuses
                    /\ ret[c] = Err(<<"Server process exited early with status: ",
                                      tw.val>>)
              /\ tw.tag = "Err" =>
                    ret[c] = Err(<<"Error checking server process: ", tw.val>>)

\* The startup task's call polled a child that had exited with status 1.
C11_Witness ==
    /\ Returned(ORCH, "start_embedded_server")
    /\ waited[ORCH] = <<Ok("exit_1")>>
    /\ ret[ORCH] = Err(<<"Server process exited early with status: ",
                         "exit_1">>)
    /\ elapsed[ORCH] = GraceSecs

EmbeddedChildren == {i \in DOMAIN children : children[i].kind = "embedded"}

\* C12: when the resource root cannot be resolved, or nyx-server.exe is not
\* under it, start_embedded_server returns an error straight from the lookup:
\* it never reaches spawn, the sleep or try_wait, it attempts no spawn and no
\* embedded child exists.
C12_AbsentBinaryFailsFast ==
    resource \in {"unresolvable", "missing"} =>
        /\ EmbeddedChildren = {}
        /\ opc # "embedded_ok"
        /\ \A c \in Callers : cmd[c] = "start_embedded_server" =>
              /\ pc[c] \in {"resolve", "returned"}
              /\ tried[c] = <<>>
              /\ child[c] = 0
              /\ waited[c] = <<>>
              /\ elapsed[c] = 0
              /\ pc[c] = "returned" =>
                    ret[c] = (IF resource = "missing"
                              THEN Err(<<"Server executable not found in resources">>)
                              ELSE Err(<<"Failed to get resource directory: ",
                                         "unknown path">>))

\* The binary is not in the resources: the startup task's call returned the
\* error without having spawned or slept.
C12_Witness ==
    /\ resource = "missing"
    /\ Returned(ORCH, "start_embedded_server")
    /\ ret[ORCH] = Err(<<"Server executable not found in resources">>)
    /\ spawns[ORCH] = 0
    /\ elapsed[ORCH] = 0

\* ---- no candidate exists

NoneExists == \A i \in 1..NumPaths : exists[i] = "no"

\* C13: when none of the candidates exists, start_server attempts no spawn and
\* returns the error string; in the startup task's fallback that error ends
\* the run: the task reaches "all_failed", logs the error, and takes no
\* further step.
C13_NothingToLaunch ==
    /\ [](NoneExists /\ cmd[ORCH] = "start_server" =>
             /\ tried[ORCH] = <<>>
             /\ \A i \in ChildrenOf(ORCH) : children[i].kind # "external"
             /\ pc[ORCH] = "returned" => ret[ORCH] = NotStarted)
    /\ [](NoneExists /\ opc \in OrchTerminal
                     /\ calls[ORCH]["start_server"] = 1 =>
             /\ opc = "all_failed"
             /\ log[ORCH] = Log("error",
                                <<"All server start methods failed: ">>
                                    \o NotStarted.val))
    /\ (NoneExists /\ cmd[ORCH] = "start_server") ~> (opc = "all_failed")
    /\ [](opc = "all_failed" => ~ENABLED StartupStep)

\* The embedded launch failed, no candidate exists, and the run ended.
C13_Witness ==
    /\ NoneExists
    /\ opc = "all_failed"
    /\ ret[ORCH] = NotStarted
    /\ tried[ORCH] = <<>>
    /\ otrace[Len(otrace)].on = NotStarted

\* ---- the time wait_for_server_ready takes

\* C14: a wait_for_server_ready call that ends in the timeout error has
\* taken at most 30 seconds from its start.
C14_TimeoutWithinThirtySeconds ==
    \A c \in UI :
        (Returned(c, "wait_for_server_ready") /\ ret[c] = TimedOut)
            => elapsed[c] <= ReadinessSecs

\* ---- the probing commands and the child processes

OnlyProbed(c) ==
    calls[c]["start_server"] + calls[c]["start_embedded_server"] = 0

\* C15: no step of check_server_health or of wait_for_server_ready, whoever
\* runs it and whatever the startup task and the launch commands are doing
\* meanwhile, spawns a process or changes the spawned processes or their
\* status; a caller that has only probed has spawned nothing.
C15_ProbesAreReadOnly ==
    /\ [][\A c \in Callers :
            (CheckStep(c) \/ WaitStep(c)) => UNCHANGED <<children, spawns>>]_vars
    /\ [](\A c \in UI :
            OnlyProbed(c) => spawns[c] = 0 /\ ChildrenOf(c) = {})

\* The user interface waited for the backend while the startup task spawned
\* the embedded server: the wait returned and the only child is the task's.
C15_Witness ==
    /\ Returned("ui1", "wait_for_server_ready")
    /\ probes["ui1"] >= 2
    /\ opc = "embedded_ok"
    /\ Len(children) = 1
    /\ children[1].by = ORCH
    /\ children[1].during = {}
    /\ spawns["ui1"] = 0

\* ---- the attempts of one start_server call

Existing == {i \in 1..NumPaths : exists[i] = "yes"}

Attempted(t) == {t[k].cand : k \in DOMAIN t}

Refused(t) == {t[k].cand : k \in {m \in DOMAIN t : ~t[m].ok}}

\* C16: within one start_server call a candidate that does not exist is never
\* spawned; the existing candidates are attempted in list order, none of them
\* twice and none passed over; nothing is attempted after a successful spawn;
\* the call returns an error exactly when every existing candidate was refused
\* (also when none exists). So the attempts are at most as many as the
\* existing candidates and at most one of them succeeds.
C16_AttemptsOfOneCall ==
    \A c \in UI : cmd[c] = "start_server" =>
        LET t == tried[c] IN
        /\ Attempted(t) \subseteq Existing
        /\ \A k \in 1..(Len(t) - 1) : t[k].cand < t[k + 1].cand
        /\ \A i \in Existing :
              (Len(t) >= 1 /\ i < t[Len(t)].cand) => i \in Attempted(t)
        /\ \A k \in DOMAIN t : t[k].ok => (k = Len(t) /\ pc[c] = "returned")
        /\ pc[c] = "returned" =>
              /\ ret[c].tag \in {"Ok", "Err"}
              /\ ret[c].tag = "Err" <=>
                    /\ \A i \in 1..NumPaths : exists[i] # "unknown"
                    /\ Existing = Refused(t)
              /\ ret[c].tag = "Ok" <=> (Len(t) >= 1 /\ t[Len(t)].ok)
        /\ Len(t) <= Cardinality(Existing)
        /\ Cardinality({k \in DOMAIN t : t[k].ok}) <= 1

\* All five candidates exist; the OS refused the first four and spawned the
\* last.
C16_Witness ==
    /\ Returned("ui1", "start_server")
    /\ Cardinality(Existing) = NumPaths
    /\ Len(tried["ui1"]) = NumPaths
    /\ ret["ui1"] = Ok(<<"Server started from ", "server.exe">>)

\* ---- the children of one run of the startup task

OrchChildren(kind) == {i \in ChildrenOf(ORCH) : children[i].kind = kind}

Live(i) == children[i].status = "running"

\* C17: one run of the startup task spawns at most one embedded and at most
\* one external child. It has both only if the embedded child was spawned and
\* start_embedded_server then reported an early exit or a failed status check;
\* both are alive together only in the latter case, the embedded child having
\* been alive when the external one was spawned.
C17_ChildrenOfOneRun ==
    LET emb == OrchChildren("embedded")
        ext == OrchChildren("external")
    IN
    /\ Cardinality(emb) <= 1
    /\ Cardinality(ext) <= 1
    /\ ChildrenOf(ORCH) = emb \cup ext
    /\ (emb # {} /\ ext # {}) =>
          /\ \A i \in emb, j \in ext : i < j
          /\ Len(waited[ORCH]) = 1
          /\ \/ waited[ORCH][1].tag = "Err"
             \/ waited[ORCH][1].tag = "Ok"
                  /\ waited[ORCH][1].val \in ExitStatuses
          /\ otrace[4].at = "fallback"
          /\ otrace[4].on.val[1] \in
                {"Server process exited early with status: ",
                 "Error checking server process: "}
          /\ (\E i \in emb : Live(i)) =>
                /\ waited[ORCH][1].tag = "Err"
                /\ polled[ORCH] = "running"
    /\ (ext # {} /\ emb = {}) =>
          /\ otrace[4].at = "fallback"
          /\ otrace[4].on.val[1] \in
                {"Failed to get resource directory: ",
                 "Server executable not found in resources",
                 "Failed to start server: "}

\* The status check failed while the embedded child was running, and the
\* fallback spawned an external one: two backend processes of one run alive.
C17_Witness ==
    /\ opc = "fallback_ok"
    /\ Cardinality(OrchChildren("embedded")) = 1
    /\ Cardinality(OrchChildren("external")) = 1
    /\ \A i \in ChildrenOf(ORCH) : Live(i)
    /\ waited[ORCH] = <<Err("ECHILD")>>

\* ---- the one probe of the startup task

Launching(c) == cmd[c] \in {"start_embedded_server", "start_server"}

\* A spawn by c that the OS accepts can be the next step.
CanSpawn(c) ==
    \/ ENABLED (EmbeddedSpawn(c) /\ Len(children') > Len(children))
    \/ ENABLED (StartServerSpawn(c) /\ Len(children') > Len(children))

\* C18: the startup task probes once in a run. Each of its launch attempts
\* and spawns comes after that probe, which was sent while the backend was
\* unreachable and returned Ok(false); the task does not probe again, so when
\* it stands at a spawn it goes through with it whether or not the backend
\* has become reachable in the meantime.
C18_OneProbeThenLaunch ==
    /\ calls[ORCH]["check_server_health"] <= 1
    /\ probes[ORCH] <= 1
    /\ (Launching(ORCH) \/ spawns[ORCH] > 0) =>
          /\ probes[ORCH] = 1
          /\ firstUp[ORCH] = 0
          /\ otrace[3] = [at |-> "embedded", on |-> Ok(FALSE)]
    /\ Running(ORCH, "start_embedded_server", "spawn") =>
          ENABLED EmbeddedSpawn(ORCH)
    /\ (InStartServer(ORCH) /\ HasNextPath(idx[ORCH])
                            /\ exists[idx[ORCH]] # "no") =>
          ENABLED StartServerSpawn(ORCH)

\* The user started the server by hand after the task's probe and the backend
\* answers; the task, whose embedded child exited during the sleep, is in its
\* fallback and spawns an external server all the same.
C18_Witness ==
    /\ reachable
    /\ probes[ORCH] = 1 /\ firstUp[ORCH] = 0
    /\ \E i \in ChildrenOf("ui1") : Live(i) /\ i > 1
    /\ children[1].by = ORCH /\ children[1].kind = "embedded"
    /\ InStartServer(ORCH)
    /\ CanSpawn(ORCH)

====
